---- MODULE Spec2Model ----
(***************************************************************************)
(* CloudPDF server (server.js): the flat-file metadata store db.json, the  *)
(* storage directory and the Express request handlers.                     *)
(*                                                                         *)
(* Node runs one thread: every handler runs without interruption up to its *)
(* next await, so each action below is one synchronous stretch of a        *)
(* handler.  loadDB, saveDB, addItem, updateItem, removeItem and findItem  *)
(* use the synchronous fs calls and never span two actions.                *)
(***************************************************************************)
EXTENDS Integers, Sequences, FiniteSets, Bags, TLC

VARIABLES
  BOT_TOKEN,       \* TRUE iff process.env.BOT_TOKEN is a non-empty string
  CACHE_TG_FILES,  \* process.env.CACHE_TG_FILES !== 'false'
  fsFaults,        \* TRUE iff writes to DB_FILE may fail (disk full, read-only)
  dbFile,          \* the content of DB_FILE
  storage,         \* the paths of the files that exist under STORAGE_DIR
  partial,         \* those of them a write stream truncated and has not completed
  reqs,            \* the bag of requests in flight, each parked at an await
  last,            \* the step just taken and what it answered
  ingested,        \* how many documents have been accepted for ingestion so far
  uploaded,        \* history: <<id, title>> of each titled upload answered ok, until deleted
  deleted          \* history: the ids of uploads answered ok that a DELETE answered ok for

vars == <<BOT_TOKEN, CACHE_TG_FILES, fsFaults, dbFile, storage, partial, reqs, last, ingested, uploaded, deleted>>

(***************************************************************************)
(* Bounds                                                                  *)
(***************************************************************************)
MaxTime == 0    \* Date.now() ranges over 0..MaxTime
NumRand == 2    \* Math.random().toString(36).slice(2,8) ranges over NumRand strings
MaxItems == 2   \* documents ingested over a run
MaxReq == 2     \* requests in flight at once

\* Date.now() reads the wall clock, which the environment sets: each read is
\* an input drawn from Times.
Times == 0..MaxTime
Rands == 0..(NumRand - 1)

(***************************************************************************)
(* Values.  A field a JS object does not have (undefined) or has as null   *)
(* is "" for strings, NoPath for paths and NoTime for numbers: all three   *)
(* are falsy in the code's `||` and `&&` tests, as undefined and null are. *)
(***************************************************************************)
NoPath == <<>>
NoTime == 0 - 1

\* Date.now().toString(36) + '-' + Math.random().toString(36).slice(2,8)
NewId(t, r) == ToString(t) \o "-" \o ToString(r)

AllIds == {NewId(t, r) : t \in Times, r \in Rands}

\* `${id}${ext}` under STORAGE_DIR (multer filename) and
\* path.join(STORAGE_DIR, `${id}-${path.basename(filePath)}`)
UploadPath(id, ext) == <<id, ext>>
CachePath(id, base) == <<id, "-" \o base>>

\* path.parse(req.file.filename).name: the filename without its extension
ParsedName(filename) == filename[1]

\* path.extname(file.originalname) || '.pdf'
ExtName(originalname) == IF originalname = "report.pdf" THEN ".pdf" ELSE ".pdf"

\* file_path values the getFile call of the remote platform answers with
FilePaths == {"documents/file_1.pdf"}
BaseName(filePath) == IF filePath = "documents/file_1.pdf" THEN "file_1.pdf" ELSE filePath

(***************************************************************************)
(* The metadata file.  Its content is absent, unparseable text, or JSON    *)
(* text of some value, either exactly the text JSON.stringify(v, null, 2)  *)
(* produces ("indent2") or laid out otherwise ("other": on one line, with  *)
(* a trailing newline, ...).  A JSON value here is null or an object with  *)
(* or without an items list.                                               *)
(***************************************************************************)
JsonNull == [isNull |-> TRUE, hasItems |-> FALSE, items |-> <<>>]
JsonObj(hasItems, items) == [isNull |-> FALSE, hasItems |-> hasItems, items |-> items]

FileAbsent == [fmt |-> "absent", val |-> JsonNull]
FileGarbage == [fmt |-> "garbage", val |-> JsonNull]
FileText(fmt, v) == [fmt |-> fmt, val |-> v]

\* fs.readFileSync + JSON.parse throw on an absent file and on text that is not JSON
ParseThrows(file) == file.fmt \in {"absent", "garbage"}

\* JSON.stringify(db): the same value on one line
JsonStringifyCompact(db) == FileText("other", db)
\* JSON.stringify(db, null, 2)
JsonStringify(db) == FileText("indent2", db)

loadDB(file) == IF ParseThrows(file) THEN JsonObj(TRUE, <<>>) ELSE file.val

\* saveDB without the indentation argument
saveDBCompact(db) == JsonStringifyCompact(db)

saveDB(db) == JsonStringify(db)

\* db.items || []
ItemsOr(db) == IF db.hasItems THEN db.items ELSE <<>>

\* The outcome of a store operation: whether it threw, and the file it left.
Threw(file) == [threw |-> TRUE, file |-> file]
Saved(file, db, wfail) == IF wfail THEN Threw(file) ELSE [threw |-> FALSE, file |-> saveDB(db)]

(***************************************************************************)
(* Records.  Every item carries every field; a field the JS object lacks   *)
(* holds the falsy value of its type.                                      *)
(***************************************************************************)
NoItem ==
  [id |-> "", source |-> "", name |-> "", title |-> "", category |-> "",
   date |-> NoTime, size |-> NoTime, file_id |-> "", localPath |-> NoPath,
   cachedAt |-> NoTime]

\* { ...it, ...patch }
Merge(it, patch) ==
  [f \in DOMAIN it |-> IF f \in DOMAIN patch THEN patch[f] ELSE it[f]]

Ids(items) == {items[i].id : i \in DOMAIN items}

\* addItem that saves the new item alone, not on top of the records stored
addItemAlone(file, item, wfail) ==
  LET db == loadDB(file) IN
  IF db.isNull THEN Threw(file)
  ELSE Saved(file, JsonObj(TRUE, <<item>>), wfail)

\* Reading db.items of null throws a TypeError.
addItem(file, item, wfail) ==
  LET db == loadDB(file) IN
  IF db.isNull THEN Threw(file)
  ELSE Saved(file, JsonObj(TRUE, Append(ItemsOr(db), item)), wfail)

\* updateItem as an upsert: a patch for an id no record has becomes a record
updateItemUpsert(file, id, patch, wfail) ==
  LET db == loadDB(file)
      its == ItemsOr(db)
      merged == [i \in DOMAIN its |->
                   IF its[i].id = id THEN Merge(its[i], patch) ELSE its[i]] IN
  IF db.isNull THEN Threw(file)
  ELSE Saved(file,
             JsonObj(TRUE, IF id \in Ids(its) THEN merged
                           ELSE Append(merged, Merge([NoItem EXCEPT !.id = id], patch))),
             wfail)

updateItem(file, id, patch, wfail) ==
  LET db == loadDB(file)
      its == ItemsOr(db) IN
  IF db.isNull THEN Threw(file)
  ELSE Saved(file,
             JsonObj(TRUE, [i \in DOMAIN its |->
                              IF its[i].id = id THEN Merge(its[i], patch) ELSE its[i]]),
             wfail)

removeItem(file, id, wfail) ==
  LET db == loadDB(file) IN
  IF db.isNull THEN Threw(file)
  ELSE Saved(file, JsonObj(TRUE, SelectSeq(ItemsOr(db), LAMBDA it : it.id # id)), wfail)

\* (db.items || []).find(it => it.id === id): the first match, or undefined
findItem(file, id) ==
  LET db == loadDB(file)
      its == ItemsOr(db)
      hits == {i \in DOMAIN its : its[i].id = id} IN
  IF db.isNull THEN [threw |-> TRUE, found |-> FALSE, item |-> NoItem]
  ELSE IF hits = {} THEN [threw |-> FALSE, found |-> FALSE, item |-> NoItem]
  ELSE [threw |-> FALSE, found |-> TRUE,
        item |-> its[CHOOSE i \in hits : \A j \in hits : i <= j]]

\* fs.writeFileSync(DB_FILE, ...) fails only where the file system is faulty
WriteFails == IF fsFaults THEN BOOLEAN ELSE {FALSE}

(***************************************************************************)
(* Requests in flight and answers.                                         *)
(***************************************************************************)
\* op: the route; pc: the await the handler is parked at; id: req.params.id or
\* the generated id; path: req.file.path or cachePath; title: req.body.title
Req(op, pc, id, path, title) ==
  [op |-> op, pc |-> pc, id |-> id, path |-> path, title |-> title]

InFlight == BagToSet(reqs)
Park(r) == reqs (+) SetToBag({r})
Move(r, r2) == (reqs (-) SetToBag({r})) (+) SetToBag({r2})
Leave(r) == reqs (-) SetToBag({r})

\* What a step did that a client, the log or the store can show.
\*   op: the route.  status: the HTTP status, 0 while nothing is answered.
\*   shape: "ok" is {ok:true,...}, "error" is {error:...}, "list" the list array,
\*     "text" a plain-text body, "pdf" the streamed file, "html" the error page of
\*     Express's default error handler, "unhandled" a rejection nothing caught (no
\*     response is sent), "none" a step that answers nothing yet.
\*   store: the store operation the step completed ("add", "update", "remove").
\*   log: the console.warn / console.error line the step printed.
\*   sent: the call to the remote platform the step sent ("getFile", "download").
Answer(op, id, status, shape) ==
  [op |-> op, id |-> id, status |-> status, shape |-> shape,
   store |-> "", log |-> "", sent |-> ""]
Step(op, id) == Answer(op, id, 0, "none")
Unhandled(op, id) == Answer(op, id, 0, "unhandled")
Stored(ans, operation) == [ans EXCEPT !.store = operation]
Logged(ans, line) == [ans EXCEPT !.log = line]
Sent(ans, call) == [ans EXCEPT !.sent = call]

\* the records a reader of the store sees
Items == IF loadDB(dbFile).isNull THEN <<>> ELSE ItemsOr(loadDB(dbFile))


(***************************************************************************)
(* GET /api/list                                                           *)
(***************************************************************************)
Or2(a, b) == IF a # "" THEN a ELSE b

ListEntry(it) ==
  [id |-> it.id,
   title |-> Or2(it.title, it.name),
   name |-> it.name,
   category |-> it.category,
   date |-> it.date,
   source |-> Or2(it.source, "upload"),
   size |-> it.size]

ListBody(file) ==
  LET its == ItemsOr(loadDB(file)) IN [i \in DOMAIN its |-> ListEntry(its[i])]

\* res.json(list)
ListResponse == ListBody(dbFile)

\* A throw in a synchronous handler reaches Express's default error handler.
List ==
  /\ UNCHANGED <<uploaded, deleted>>
  /\ last' = IF loadDB(dbFile).isNull
             THEN Answer("list", "", 500, "html")
             ELSE Answer("list", "", 200, "list")
  /\ UNCHANGED <<BOT_TOKEN, CACHE_TG_FILES, fsFaults, dbFile, storage, partial, reqs, ingested>>

(***************************************************************************)
(* POST /upload                                                            *)
(***************************************************************************)
OriginalName == "report.pdf"
Titles == {"Q1", ""}

\* upload.single('file'): fileFilter, then the filename callback, then the
\* write to disk under the fileSize limit.  multer hands a fileFilter error and
\* a LIMIT_FILE_SIZE error to next(err), removing the partly written file;
\* the app installs no error middleware, so Express's default error handler
\* answers them (status 500, an HTML page) and the route handler never runs.
UploadMulter(hasFile, mime, tooBig, title, t, rnd) ==
  /\ UNCHANGED <<uploaded, deleted>>
  /\ BagCardinality(reqs) < MaxReq
  /\ UNCHANGED <<BOT_TOKEN, CACHE_TG_FILES, fsFaults, dbFile, partial>>
  /\ IF ~hasFile
     THEN /\ reqs' = Park(Req("upload", "handler", "", NoPath, title))
          /\ last' = Step("upload", "")
          /\ UNCHANGED <<storage, ingested>>
     ELSE IF mime # "application/pdf" \/ tooBig
     THEN /\ last' = Answer("upload", "", 500, "html")
          /\ UNCHANGED <<storage, reqs, ingested>>
     ELSE LET id == NewId(t, rnd)
              path == UploadPath(id, ExtName(OriginalName)) IN
          /\ ingested < MaxItems
          /\ ingested' = ingested + 1
          /\ storage' = storage \cup {path}
          /\ reqs' = Park(Req("upload", "handler", "", path, title))
          /\ last' = Step("upload", id)

UploadHandler(r, t, wfail) ==
  /\ r.op = "upload" /\ r.pc = "handler"
  /\ reqs' = Leave(r)
  /\ UNCHANGED <<BOT_TOKEN, CACHE_TG_FILES, fsFaults, storage, partial, ingested>>
  /\ IF r.path = NoPath
     THEN /\ last' = Answer("upload", "", 400, "error")
          /\ UNCHANGED <<dbFile, uploaded, deleted>>
     ELSE LET id == ParsedName(r.path)
              newItem == [NoItem EXCEPT
                            !.id = id,
                            !.source = "upload",
                            !.name = OriginalName,
                            !.title = Or2(r.title, OriginalName),
                            !.category = "Uncategorized",
                            !.date = t,
                            !.size = 1,
                            !.localPath = r.path]
              res == addItem(dbFile, newItem, wfail) IN
          /\ dbFile' = res.file
          /\ uploaded' = IF res.threw \/ r.title = "" THEN uploaded
                         ELSE uploaded \cup {<<id, r.title>>}
          /\ UNCHANGED deleted
          /\ last' = IF res.threw
                     THEN Logged(Answer("upload", id, 500, "error"), "upload err")
                     ELSE Stored(Answer("upload", id, 200, "ok"), "add")

(***************************************************************************)
(* DELETE /api/delete/:id                                                  *)
(***************************************************************************)
\* The handler is async and awaits nothing: it runs in one stretch.  findItem
\* and removeItem stand outside any try, so a throw of theirs rejects the
\* handler's promise, which nothing catches.
Delete(id, unlinkOk, wfail) ==
  LET f == findItem(dbFile, id)
      tries == f.item.localPath # NoPath /\ f.item.localPath \in storage
      unlinks == tries /\ unlinkOk
      warn == IF tries /\ ~unlinkOk THEN "failed to unlink" ELSE ""
      res == removeItem(dbFile, id, wfail) IN
  /\ UNCHANGED <<BOT_TOKEN, CACHE_TG_FILES, fsFaults, reqs, ingested>>
  /\ IF f.threw
     THEN /\ last' = Unhandled("delete", id)
          /\ UNCHANGED <<dbFile, storage, partial, uploaded, deleted>>
     ELSE IF ~f.found
     THEN /\ last' = Answer("delete", id, 404, "error")
          /\ UNCHANGED <<dbFile, storage, partial, uploaded, deleted>>
     ELSE /\ storage' = IF unlinks THEN storage \ {f.item.localPath} ELSE storage
          /\ partial' = IF unlinks THEN partial \ {f.item.localPath} ELSE partial
          /\ dbFile' = res.file
          /\ uploaded' = IF res.threw THEN uploaded ELSE {u \in uploaded : u[1] # id}
          /\ deleted' = IF res.threw THEN deleted
                        ELSE deleted \cup {u[1] : u \in {v \in uploaded : v[1] = id}}
          /\ last' = IF res.threw THEN Logged(Unhandled("delete", id), warn)
                     ELSE Logged(Stored(Answer("delete", id, 200, "ok"), "remove"), warn)

(***************************************************************************)
(* The remote platform and the download to disk                            *)
(***************************************************************************)
\* fetch(.../getFile) + gf.json(): a usable file_path, an unusable answer, or a throw
LookupOutcomes == {"ok", "unusable", "throws"}
\* fetch(fileUrl): upstream.ok, not ok, or a throw
FetchOutcomes == {"ok", "notok", "throws"}
\* pump(upstream.body, dest): resolves, or rejects leaving what was written
PumpOutcomes == {"done", "fails"}
\* pump(readStream, res): resolves, or rejects (read error, client gone)
StreamOutcomes == {"done", "fails"}

\* requests whose write stream on path p is open
Writers(p) == {w \in InFlight : w.pc = "pump" /\ w.path = p}
OtherWriter(r, p) == \E w \in Writers(p) : w # r \/ CopiesIn(w, reqs) > 1

\* fs.createWriteStream(cachePath): creates the file or truncates it
OpenForWrite(p) ==
  /\ storage' = storage \cup {p}
  /\ partial' = partial \cup {p}

\* the write stream of r closes after the last byte; an unlinked file stays gone
CloseWritten(r) ==
  /\ partial' = IF OtherWriter(r, r.path) THEN partial ELSE partial \ {r.path}
  /\ UNCHANGED storage

\* { localPath: cachePath, cachedAt: Date.now() }
CachePatch(p, t) == [localPath |-> p, cachedAt |-> t]

(***************************************************************************)
(* GET /api/file/:id                                                       *)
(***************************************************************************)
\* FileStart with the telegram branch ahead of the local-file test
FileStartRemoteFirst(id) ==
  LET f == findItem(dbFile, id)
      item == f.item IN
  /\ UNCHANGED <<uploaded, deleted>>
  /\ BagCardinality(reqs) < MaxReq
  /\ UNCHANGED <<BOT_TOKEN, CACHE_TG_FILES, fsFaults, dbFile, storage, partial, ingested>>
  /\ IF f.threw
     THEN last' = Unhandled("file", id) /\ UNCHANGED reqs
     ELSE IF ~f.found
     THEN last' = Answer("file", id, 404, "error") /\ UNCHANGED reqs
     ELSE IF item.source = "telegram"
     THEN IF ~BOT_TOKEN
          THEN last' = Answer("file", id, 500, "error") /\ UNCHANGED reqs
          ELSE /\ reqs' = Park(Req("file", "getFile", id, NoPath, ""))
               /\ last' = Sent(Step("file", id), "getFile")
     ELSE IF item.localPath # NoPath /\ item.localPath \in storage
     THEN /\ reqs' = Park(Req("file", "stream", id, item.localPath, ""))
          /\ last' = Step("file", id)
     ELSE last' = Answer("file", id, 501, "error") /\ UNCHANGED reqs

\* FileStart without the BOT_TOKEN test
FileStartNoTokenTest(id) ==
  LET f == findItem(dbFile, id)
      item == f.item IN
  /\ UNCHANGED <<uploaded, deleted>>
  /\ BagCardinality(reqs) < MaxReq
  /\ UNCHANGED <<BOT_TOKEN, CACHE_TG_FILES, fsFaults, dbFile, storage, partial, ingested>>
  /\ IF f.threw
     THEN last' = Unhandled("file", id) /\ UNCHANGED reqs
     ELSE IF ~f.found
     THEN last' = Answer("file", id, 404, "error") /\ UNCHANGED reqs
     ELSE IF item.localPath # NoPath /\ item.localPath \in storage
     THEN /\ reqs' = Park(Req("file", "stream", id, item.localPath, ""))
          /\ last' = Step("file", id)
     ELSE IF item.source = "telegram"
     THEN /\ reqs' = Park(Req("file", "getFile", id, NoPath, ""))
          /\ last' = Sent(Step("file", id), "getFile")
     ELSE last' = Answer("file", id, 501, "error") /\ UNCHANGED reqs

\* up to the first await: findItem (outside the try), the local-file test,
\* the source and BOT_TOKEN tests, and the getFile call being sent
FileStart(id) ==
  LET f == findItem(dbFile, id)
      item == f.item IN
  /\ UNCHANGED <<uploaded, deleted>>
  /\ BagCardinality(reqs) < MaxReq
  /\ UNCHANGED <<BOT_TOKEN, CACHE_TG_FILES, fsFaults, dbFile, storage, partial, ingested>>
  /\ IF f.threw
     THEN last' = Unhandled("file", id) /\ UNCHANGED reqs
     ELSE IF ~f.found
     THEN last' = Answer("file", id, 404, "error") /\ UNCHANGED reqs
     ELSE IF item.localPath # NoPath /\ item.localPath \in storage
     THEN /\ reqs' = Park(Req("file", "stream", id, item.localPath, ""))
          /\ last' = Step("file", id)
     ELSE IF item.source = "telegram"
     THEN IF ~BOT_TOKEN
          THEN last' = Answer("file", id, 500, "error") /\ UNCHANGED reqs
          ELSE /\ reqs' = Park(Req("file", "getFile", id, NoPath, ""))
               /\ last' = Sent(Step("file", id), "getFile")
     ELSE last' = Answer("file", id, 501, "error") /\ UNCHANGED reqs

\* the getFile answer arrives; on a usable one the download request is sent
FileLookup(r, outcome, filePath) ==
  /\ UNCHANGED <<uploaded, deleted>>
  /\ r.op = "file" /\ r.pc = "getFile"
  /\ UNCHANGED <<BOT_TOKEN, CACHE_TG_FILES, fsFaults, dbFile, storage, partial, ingested>>
  /\ CASE outcome = "ok" ->
            /\ reqs' = Move(r, [r EXCEPT !.pc = "fetch",
                                         !.path = CachePath(r.id, BaseName(filePath))])
            /\ last' = Sent(Step("file", r.id), "download")
       [] outcome = "unusable" ->
            /\ reqs' = Leave(r)
            /\ last' = Answer("file", r.id, 502, "error")
       [] OTHER ->
            /\ reqs' = Leave(r)
            /\ last' = Logged(Answer("file", r.id, 500, "error"), "file serve error")

\* FileFetch that records the cache path as soon as the write stream is open
FileFetchUpdatesEarly(r, outcome) ==
  /\ UNCHANGED <<uploaded, deleted>>
  /\ r.op = "file" /\ r.pc = "fetch"
  /\ UNCHANGED <<BOT_TOKEN, CACHE_TG_FILES, fsFaults, ingested>>
  /\ CASE outcome = "ok" ->
            /\ OpenForWrite(r.path)
            /\ dbFile' = updateItem(dbFile, r.id, CachePatch(r.path, 0), FALSE).file
            /\ reqs' = Move(r, [r EXCEPT !.pc = "pump"])
            /\ last' = Stored(Step("file", r.id), "update")
       [] outcome = "notok" ->
            /\ reqs' = Leave(r)
            /\ last' = Answer("file", r.id, 502, "error")
            /\ UNCHANGED <<dbFile, storage, partial>>
       [] OTHER ->
            /\ reqs' = Leave(r)
            /\ last' = Logged(Answer("file", r.id, 500, "error"), "file serve error")
            /\ UNCHANGED <<dbFile, storage, partial>>

\* the download response arrives; if ok the write stream is opened and pumped
FileFetch(r, outcome) ==
  /\ UNCHANGED <<uploaded, deleted>>
  /\ r.op = "file" /\ r.pc = "fetch"
  /\ UNCHANGED <<BOT_TOKEN, CACHE_TG_FILES, fsFaults, dbFile, ingested>>
  /\ CASE outcome = "ok" ->
            /\ OpenForWrite(r.path)
            /\ reqs' = Move(r, [r EXCEPT !.pc = "pump"])
            /\ last' = Step("file", r.id)
       [] outcome = "notok" ->
            /\ reqs' = Leave(r)
            /\ last' = Answer("file", r.id, 502, "error")
            /\ UNCHANGED <<storage, partial>>
       [] OTHER ->
            /\ reqs' = Leave(r)
            /\ last' = Logged(Answer("file", r.id, 500, "error"), "file serve error")
            /\ UNCHANGED <<storage, partial>>

\* FilePump that records the cache path although the download broke off
FilePumpUpdatesOnFailure(r, outcome, t, wfail) ==
  LET res == updateItem(dbFile, r.id, CachePatch(r.path, t), wfail) IN
  /\ UNCHANGED <<uploaded, deleted>>
  /\ r.op = "file" /\ r.pc = "pump"
  /\ UNCHANGED <<BOT_TOKEN, CACHE_TG_FILES, fsFaults, ingested>>
  /\ dbFile' = res.file
  /\ IF outcome = "done"
     THEN /\ CloseWritten(r)
          /\ IF res.threw
             THEN /\ reqs' = Leave(r)
                  /\ last' = Logged(Answer("file", r.id, 500, "error"), "file serve error")
             ELSE /\ reqs' = Move(r, [r EXCEPT !.pc = "stream"])
                  /\ last' = Stored(Step("file", r.id), "update")
     ELSE /\ reqs' = Leave(r)
          /\ last' = Logged(Answer("file", r.id, 500, "error"), "file serve error")
          /\ UNCHANGED <<storage, partial>>

\* the pump ends; updateItem, then streamFileToResponse is returned unawaited
FilePump(r, outcome, t, wfail) ==
  LET res == updateItem(dbFile, r.id, CachePatch(r.path, t), wfail) IN
  /\ UNCHANGED <<uploaded, deleted>>
  /\ r.op = "file" /\ r.pc = "pump"
  /\ UNCHANGED <<BOT_TOKEN, CACHE_TG_FILES, fsFaults, ingested>>
  /\ IF outcome = "done"
     THEN /\ CloseWritten(r)
          /\ dbFile' = res.file
          /\ IF res.threw
             THEN /\ reqs' = Leave(r)
                  /\ last' = Logged(Answer("file", r.id, 500, "error"), "file serve error")
             ELSE /\ reqs' = Move(r, [r EXCEPT !.pc = "stream"])
                  /\ last' = Stored(Step("file", r.id), "update")
     ELSE /\ reqs' = Leave(r)
          /\ last' = Logged(Answer("file", r.id, 500, "error"), "file serve error")
          /\ UNCHANGED <<dbFile, storage, partial>>

\* streamFileToResponse ends.  Its promise was returned from inside the try
\* without await, so the catch of the handler does not see its rejection.
FileStream(r, outcome) ==
  /\ UNCHANGED <<uploaded, deleted>>
  /\ r.op = "file" /\ r.pc = "stream"
  /\ UNCHANGED <<BOT_TOKEN, CACHE_TG_FILES, fsFaults, dbFile, storage, partial, ingested>>
  /\ reqs' = Leave(r)
  /\ last' = IF outcome = "done" /\ r.path \in storage
             THEN Answer("file", r.id, 200, "pdf")
             ELSE Unhandled("file", r.id)

(***************************************************************************)
(* POST /webhook                                                           *)
(***************************************************************************)
FileNames == {"doc.pdf"}
FileId == "F1"

\* up to the first await: the message test, addItem, the CACHE_TG_FILES and
\* BOT_TOKEN test and the getFile call being sent.  A throw of addItem reaches
\* the outer catch.
WebhookReceive(hasMsg, hasDoc, fileName, t, rnd, wfail) ==
  LET id == NewId(t, rnd)
      item == [NoItem EXCEPT
                 !.id = id,
                 !.source = "telegram",
                 !.file_id = FileId,
                 !.name = Or2(fileName, "telegram_file.pdf"),
                 !.title = Or2(fileName, "Telegram " \o id),
                 !.category = "Telegram",
                 !.date = t]
      res == addItem(dbFile, item, wfail) IN
  /\ UNCHANGED <<uploaded, deleted>>
  /\ UNCHANGED <<BOT_TOKEN, CACHE_TG_FILES, fsFaults, storage, partial>>
  /\ IF ~hasMsg
     THEN /\ last' = Answer("webhook", "", 200, "text")
          /\ UNCHANGED <<dbFile, reqs, ingested>>
     ELSE IF ~hasDoc
     THEN /\ last' = Answer("webhook", "", 200, "ok")
          /\ UNCHANGED <<dbFile, reqs, ingested>>
     ELSE /\ ingested < MaxItems
          /\ ingested' = ingested + 1
          /\ dbFile' = res.file
          /\ IF res.threw
             THEN /\ last' = Logged(Answer("webhook", id, 500, "error"), "webhook error")
                  /\ UNCHANGED reqs
             ELSE IF CACHE_TG_FILES /\ BOT_TOKEN
             THEN /\ BagCardinality(reqs) < MaxReq
                  /\ reqs' = Park(Req("webhook", "getFile", id, NoPath, ""))
                  /\ last' = Sent(Stored(Step("webhook", id), "add"), "getFile")
             ELSE /\ last' = Stored(Answer("webhook", id, 200, "ok"), "add")
                  /\ UNCHANGED reqs

\* Every failure of the pre-cache reaches the inner catch or skips an if:
\* the answer is {ok:true} either way.
WebhookLookup(r, outcome, filePath) ==
  /\ UNCHANGED <<uploaded, deleted>>
  /\ r.op = "webhook" /\ r.pc = "getFile"
  /\ UNCHANGED <<BOT_TOKEN, CACHE_TG_FILES, fsFaults, dbFile, storage, partial, ingested>>
  /\ IF outcome = "ok"
     THEN /\ reqs' = Move(r, [r EXCEPT !.pc = "fetch",
                                       !.path = CachePath(r.id, BaseName(filePath))])
          /\ last' = Sent(Step("webhook", r.id), "download")
     ELSE /\ reqs' = Leave(r)
          /\ last' = Logged(Answer("webhook", r.id, 200, "ok"),
                            IF outcome = "throws" THEN "precache failed" ELSE "")

WebhookFetch(r, outcome) ==
  /\ UNCHANGED <<uploaded, deleted>>
  /\ r.op = "webhook" /\ r.pc = "fetch"
  /\ UNCHANGED <<BOT_TOKEN, CACHE_TG_FILES, fsFaults, dbFile, ingested>>
  /\ IF outcome = "ok"
     THEN /\ OpenForWrite(r.path)
          /\ reqs' = Move(r, [r EXCEPT !.pc = "pump"])
          /\ last' = Step("webhook", r.id)
     ELSE /\ reqs' = Leave(r)
          /\ last' = Logged(Answer("webhook", r.id, 200, "ok"),
                            IF outcome = "throws" THEN "precache failed" ELSE "")
          /\ UNCHANGED <<storage, partial>>

WebhookPump(r, outcome, t, wfail) ==
  LET res == updateItem(dbFile, r.id, CachePatch(r.path, t), wfail) IN
  /\ UNCHANGED <<uploaded, deleted>>
  /\ r.op = "webhook" /\ r.pc = "pump"
  /\ UNCHANGED <<BOT_TOKEN, CACHE_TG_FILES, fsFaults, ingested>>
  /\ reqs' = Leave(r)
  /\ IF outcome = "done"
     THEN /\ CloseWritten(r)
          /\ dbFile' = res.file
          /\ last' = IF res.threw
                     THEN Logged(Answer("webhook", r.id, 200, "ok"), "precache failed")
                     ELSE Stored(Answer("webhook", r.id, 200, "ok"), "update")
     ELSE /\ last' = Logged(Answer("webhook", r.id, 200, "ok"), "precache failed")
          /\ UNCHANGED <<dbFile, storage, partial>>

(***************************************************************************)
(* The environment                                                         *)
(***************************************************************************)
\* with no request in flight, the process is stopped and started again under
\* another environment; db.json and the storage directory stay as they are
Restart(token, cache) ==
  /\ UNCHANGED <<uploaded, deleted>>
  /\ reqs = EmptyBag
  /\ <<token, cache>> # <<BOT_TOKEN, CACHE_TG_FILES>>
  /\ BOT_TOKEN' = token
  /\ CACHE_TG_FILES' = cache
  /\ last' = Step("listen", "")
  /\ UNCHANGED <<fsFaults, dbFile, storage, partial, reqs, ingested>>

(***************************************************************************)
(* Specifications                                                          *)
(***************************************************************************)
\* what DB_FILE may hold when the process starts: nothing, text that is not
\* JSON, hand-written JSON, or what an earlier run saved
InitialFiles ==
  { FileAbsent, FileGarbage,
    FileText("other", JsonObj(TRUE, <<>>)),
    FileText("other", JsonObj(FALSE, <<>>)),
    FileText("other", JsonNull),
    FileText("indent2", JsonObj(TRUE, <<>>)) }

InitBase ==
  /\ BOT_TOKEN \in BOOLEAN
  /\ CACHE_TG_FILES \in BOOLEAN
  /\ dbFile \in InitialFiles
  /\ storage = {}
  /\ partial = {}
  /\ reqs = EmptyBag
  /\ last = Step("listen", "")
  /\ ingested = 0
  /\ uploaded = {}
  /\ deleted = {}

Init == InitBase /\ fsFaults = FALSE
InitFaults == InitBase /\ fsFaults = TRUE

\* the requests a client sends
UploadInputs ==
  {<<FALSE, "application/pdf", FALSE>>, <<TRUE, "text/plain", FALSE>>,
   <<TRUE, "application/pdf", TRUE>>, <<TRUE, "application/pdf", FALSE>>}
WebhookInputs == {<<FALSE, FALSE>>, <<TRUE, FALSE>>, <<TRUE, TRUE>>}
\* multer passes the file on to the route handler
Accepted(in) == in[1] /\ in[2] = "application/pdf" /\ ~in[3]

\* An input that the branch taken does not read is held at one value, so that
\* each step is generated once.
Next ==
  \/ List
  \/ \E in \in UploadInputs, title \in Titles, t \in Times, rnd \in Rands :
       /\ Accepted(in) \/ (rnd = 0 /\ t = 0 /\ title = "")
       /\ UploadMulter(in[1], in[2], in[3], title, t, rnd)
  \/ \E r \in InFlight, t \in Times, wfail \in WriteFails : UploadHandler(r, t, wfail)
  \/ \E id \in AllIds, unlinkOk \in BOOLEAN, wfail \in WriteFails :
       /\ findItem(dbFile, id).found \/ (unlinkOk /\ ~wfail)
       /\ Delete(id, unlinkOk, wfail)
  \/ \E id \in AllIds : FileStart(id)
  \/ \E r \in InFlight, o \in LookupOutcomes, fp \in FilePaths : FileLookup(r, o, fp)
  \/ \E r \in InFlight, o \in FetchOutcomes : FileFetch(r, o)
  \/ \E r \in InFlight, o \in PumpOutcomes, t \in Times, wfail \in WriteFails :
       FilePump(r, o, t, wfail)
  \/ \E r \in InFlight, o \in StreamOutcomes : FileStream(r, o)
  \/ \E in \in WebhookInputs, fileName \in FileNames, t \in Times, rnd \in Rands,
        wfail \in WriteFails :
       /\ in[2] \/ (rnd = 0 /\ t = 0 /\ ~wfail)
       /\ WebhookReceive(in[1], in[2], fileName, t, rnd, wfail)
  \/ \E r \in InFlight, o \in LookupOutcomes, fp \in FilePaths : WebhookLookup(r, o, fp)
  \/ \E r \in InFlight, o \in FetchOutcomes : WebhookFetch(r, o)
  \/ \E r \in InFlight, o \in PumpOutcomes, t \in Times, wfail \in WriteFails :
       WebhookPump(r, o, t, wfail)
  \/ \E token \in BOOLEAN, cache \in BOOLEAN : Restart(token, cache)

Spec == Init /\ [][Next]_vars
SpecFaults == InitFaults /\ [][Next]_vars
\* The event loop resumes every handler whose await has settled, and clients
\* keep sending requests: while a step can be taken, one is taken.
SpecFair == Init /\ [][Next]_vars /\ WF_vars(Next)

(***************************************************************************)
(* Claims                                                                  *)
(***************************************************************************)
ItemIds == Ids(Items)

\* C1: in every reachable state of the metadata store no two records share
\* an id: every addItem inserts a record whose id no stored record has.
C1_IdsUnique ==
  \A i, j \in DOMAIN Items : Items[i].id = Items[j].id => i = j

\* C2: once removeItem(id) has completed the store holds no record with that
\* id until an addItem of that id: a successful DELETE leaves none, and the
\* only steps after which an id absent from the store is in it are the
\* addItem steps of POST /upload and POST /webhook for that id; an updateItem
\* of a GET /api/file/:id or a pre-cache that was in flight adds none.
C2_RemovedStaysRemoved ==
  [][\A id \in AllIds :
       /\ (last'.store = "remove" /\ last'.id = id) => id \notin ItemIds'
       /\ (id \notin ItemIds /\ id \in ItemIds') =>
            (last'.store = "add" /\ last'.id = id /\ last'.op \in {"upload", "webhook"})
    ]_vars

\* C2 witness: an updateItem of a request in flight has just run for an id
\* whose record was removed meanwhile, and the store holds no such record.
C2_UpdateAfterRemove ==
  /\ last.store = "update"
  /\ last.id \notin ItemIds

\* the place of the record findItem(id) returns, and the records without it
FirstIndex(items, id) ==
  CHOOSE i \in DOMAIN items :
    items[i].id = id /\ \A j \in 1..(i - 1) : items[j].id # id
Without(items, i) ==
  [j \in 1..(Len(items) - 1) |-> IF j < i THEN items[j] ELSE items[j + 1]]

\* C3: DELETE /api/delete/:id on an existing record answers {ok:true} and
\* removes that record; the file at its localPath is removed if it exists and
\* the unlink does not fail, and the record is removed also when the file is
\* missing or the unlink fails; every other record stays as it is, in its
\* place, and no other file is touched.
C3_DeleteRemovesOnlyThat ==
  [][\A id \in AllIds :
       (last'.op = "delete" /\ last'.id = id /\ id \in ItemIds) =>
         LET lp == findItem(dbFile, id).item.localPath IN
         /\ last'.status = 200 /\ last'.shape = "ok"
         /\ Items' = Without(Items, FirstIndex(Items, id))
         /\ storage' = IF last'.log = "failed to unlink" THEN storage ELSE storage \ {lp}
         /\ last'.log = "failed to unlink" => lp \in storage
    ]_vars

\* C4: after a successful POST /upload with a title, every GET /api/list
\* answered before that record is deleted has an entry with the returned id,
\* that title and source "upload"; after a successful DELETE of an id no
\* later GET /api/list has an entry with that id.
C4_UploadListedUntilDeleted ==
  (last.op = "list" /\ last.shape = "list") =>
    /\ \A u \in uploaded : \E i \in DOMAIN ListResponse :
         /\ ListResponse[i].id = u[1]
         /\ ListResponse[i].title = u[2]
         /\ ListResponse[i].source = "upload"
    /\ \A id \in deleted : \A i \in DOMAIN ListResponse : ListResponse[i].id # id

\* C5: updateItem(id, patch) with an id no record has raises no error and
\* leaves the record set as it was, whatever the metadata file holds.
C5_UpdateMissingIsNoop ==
  \A id \in AllIds \ ItemIds : \A t \in Times : \A fp \in FilePaths :
    LET res == updateItem(dbFile, id, CachePatch(CachePath(id, BaseName(fp)), t), FALSE) IN
    /\ ~res.threw
    /\ ItemsOr(loadDB(res.file)) = ItemsOr(loadDB(dbFile))

\* saveDB(loadDB()) on a file that can be written
RoundTrip(file) == saveDB(loadDB(file))

Found(id) == findItem(dbFile, id)
HasLocalFile(it) == it.localPath # NoPath /\ it.localPath \in storage

\* C7: GET /api/file/:id for a telegram record without a local file (no
\* localPath, or no file at it), with no BOT_TOKEN, is answered 500 with the
\* JSON error shape in the same step: no call to the remote platform is sent,
\* no file is written, the store is unchanged and nothing is left unhandled.
C7_NoTokenIs500 ==
  [][\A id \in AllIds :
       ( /\ FileStart(id)
         /\ Found(id).found
         /\ Found(id).item.source = "telegram"
         /\ ~HasLocalFile(Found(id).item)
         /\ ~BOT_TOKEN ) =>
       /\ last' = Answer("file", id, 500, "error")
       /\ reqs' = reqs
       /\ dbFile' = dbFile
       /\ storage' = storage /\ partial' = partial
    ]_vars

\* C7 witness: such a request has just been answered 500.
C7_Answered500 ==
  /\ last = Answer("file", last.id, 500, "error")
  /\ ~BOT_TOKEN
  /\ Found(last.id).found
  /\ Found(last.id).item.source = "telegram"
  /\ ~HasLocalFile(Found(last.id).item)

\* C7 witness for the other case: the record has a localPath but no file is there.
C7_Answered500FileGone ==
  /\ C7_Answered500
  /\ Found(last.id).item.localPath # NoPath

\* C8: once a telegram record is cached (localPath and cachedAt set) and the
\* file is there, a GET /api/file/:id for its id goes on to stream that file
\* and sends no call to the remote platform, with or without a BOT_TOKEN.
C8_CachedServedLocally ==
  [][\A id \in AllIds : \A i \in DOMAIN Items :
       ( /\ FileStart(id)
         /\ Items[i].id = id
         /\ Items[i].source = "telegram"
         /\ Items[i].cachedAt # NoTime
         /\ HasLocalFile(Items[i]) ) =>
       /\ reqs' = Park(Req("file", "stream", id, Items[i].localPath, ""))
       /\ last'.sent = "" /\ last'.status = 0
       /\ dbFile' = dbFile
       /\ storage' = storage /\ partial' = partial
    ]_vars

\* C8 witness: with no BOT_TOKEN, the cached file of a telegram record has
\* just been streamed to the client.
C8_StreamedWithoutToken ==
  /\ last = Answer("file", last.id, 200, "pdf")
  /\ ~BOT_TOKEN
  /\ Found(last.id).found
  /\ Found(last.id).item.source = "telegram"
  /\ Found(last.id).item.cachedAt # NoTime

\* C9: a POST /upload whose file is declared with a type other than
\* application/pdf, or is larger than the maximum, is answered 400 with the
\* JSON error shape, and no record is added to the store.
C9_RejectedIs400 ==
  [][\A inp \in UploadInputs, title \in Titles, t \in Times, rnd \in Rands :
       ( /\ UploadMulter(inp[1], inp[2], inp[3], title, t, rnd)
         /\ inp[1]
         /\ (inp[2] # "application/pdf" \/ inp[3]) ) =>
       /\ last'.status = 400 /\ last'.shape = "error"
       /\ Items' = Items
    ]_vars

\* C10: no failure escapes a handler: whenever the metadata file holds a
\* record set, a step of a handler that meets a failure (a write of the
\* metadata file, a remote call, a write of the downloaded file, the
\* streaming of the local file) answers with the JSON error shape and is
\* never left unhandled.
C10_NoFailureEscapes ==
  ~loadDB(dbFile).isNull => last.shape # "unhandled"

\* a step at which the pre-cache of webhook request r fails: the file lookup
\* is unusable or throws, the download is not ok or throws, the write of the
\* download fails, or the updateItem after it throws
PrecacheFails(r) ==
  \/ \E o \in LookupOutcomes \ {"ok"}, fp \in FilePaths : WebhookLookup(r, o, fp)
  \/ \E o \in FetchOutcomes \ {"ok"} : WebhookFetch(r, o)
  \/ \E t \in Times : WebhookPump(r, "fails", t, FALSE)
  \/ \E t \in Times : WebhookPump(r, "done", t, TRUE)

\* C11: a POST /webhook with a document adds exactly one record, with source
\* "telegram" and the document's file_id, after the records there were; a
\* pre-cache that fails is answered {ok:true} and leaves the store as it was,
\* and GET /api/file/:id for the id still resolves to that telegram record
\* (its file_id in hand) while a record of the id is in the store.
C11_WebhookRecordSurvivesPrecache ==
  [][/\ \A fileName \in FileNames, t \in Times, rnd \in Rands :
          WebhookReceive(TRUE, TRUE, fileName, t, rnd, FALSE) =>
            /\ Len(Items') = Len(Items) + 1
            /\ SubSeq(Items', 1, Len(Items)) = Items
            /\ Items'[Len(Items')].id = NewId(t, rnd)
            /\ Items'[Len(Items')].source = "telegram"
            /\ Items'[Len(Items')].file_id = FileId
            /\ Items'[Len(Items')].localPath = NoPath
            /\ Items'[Len(Items')].cachedAt = NoTime
            /\ last'.shape \in {"none", "ok"}
     /\ \A r \in InFlight :
          PrecacheFails(r) =>
            /\ last' = Logged(Answer("webhook", r.id, 200, "ok"), last'.log)
            /\ dbFile' = dbFile
            /\ r.id \in ItemIds =>
                 /\ Found(r.id).item.source = "telegram"
                 /\ Found(r.id).item.file_id = FileId
    ]_vars

\* C12: GET /api/file/:id and DELETE /api/delete/:id for an id that no record
\* has answer 404 and change nothing: the metadata file, the files on disk
\* and the requests in flight are as before.  A DELETE of an id whose record
\* an earlier DELETE removed is such a request.
C12_UnknownIdIs404 ==
  [][\A id \in AllIds :
       ( /\ id \notin ItemIds
         /\ \/ FileStart(id)
            \/ \E unlinkOk \in BOOLEAN, wfail \in WriteFails : Delete(id, unlinkOk, wfail) ) =>
       /\ last'.status = 404 /\ last'.shape = "error"
       /\ last'.store = "" /\ last'.sent = ""
       /\ dbFile' = dbFile
       /\ storage' = storage /\ partial' = partial
       /\ reqs' = reqs
    ]_vars

\* the cache fields of the records of id
CacheOf(items, id) ==
  {<<items[i].localPath, items[i].cachedAt>> : i \in {j \in DOMAIN items : items[j].id = id}}

\* C13: in a GET /api/file/:id that misses the cache the download is written
\* to the cache path, then one updateItem sets localPath and cachedAt
\* together, then the file is streamed.  The cache fields of a record change
\* only by an updateItem; when it is the one of a GET, that request's write
\* stream was open on the path and has ended, the record gets that path, and
\* only then does the request go on to stream it.  A telegram record never
\* has localPath without cachedAt.
C13_DownloadUpdateStream ==
  [][/\ \A i \in DOMAIN Items' :
          Items'[i].source = "telegram" =>
            (Items'[i].localPath = NoPath <=> Items'[i].cachedAt = NoTime)
     /\ \A id \in ItemIds \cap ItemIds' :
          (CacheOf(Items', id) # CacheOf(Items, id) /\ last'.store # "add") =>
            /\ last'.store = "update" /\ last'.id = id
            /\ last'.op = "file" =>
                 \E r \in InFlight :
                   /\ r.op = "file" /\ r.pc = "pump" /\ r.id = id
                   /\ \A c \in CacheOf(Items', id) : c[1] = r.path /\ c[2] # NoTime
                   /\ reqs' = Move(r, [r EXCEPT !.pc = "stream"])
     /\ \A r \in BagToSet(reqs') :
          (r.op = "file" /\ r.pc = "stream" /\ CopiesIn(r, reqs') > CopiesIn(r, reqs)) =>
            \/ /\ last'.store = "update" /\ last'.id = r.id
               /\ [r EXCEPT !.pc = "pump"] \in InFlight
            \/ /\ last' = Step("file", r.id)
               /\ Found(r.id).found /\ Found(r.id).item.localPath = r.path
               /\ r.path \in storage
     /\ (last'.op = "file" /\ last'.shape = "pdf") =>
          \E r \in InFlight : r.op = "file" /\ r.pc = "stream" /\ r.id = last'.id
    ]_vars

\* C13 witness: a GET has written its download and set both cache fields of
\* the record, and is about to stream the file.
C13_UpdatedThenStreams ==
  /\ last.op = "file" /\ last.store = "update"
  /\ \E r \in InFlight :
       /\ r.op = "file" /\ r.pc = "stream" /\ r.id = last.id
       /\ Found(r.id).found
       /\ Found(r.id).item.localPath = r.path
       /\ Found(r.id).item.cachedAt # NoTime
       /\ r.path \in storage /\ r.path \notin partial

\* another GET /api/file/:id for the id of r is in flight beside r
RacingGet(r) ==
  \E r2 \in InFlight :
    /\ r2.op = "file" /\ r2.id = r.id
    /\ r2 # r \/ CopiesIn(r, reqs) > 1

\* C14: two GET /api/file/:id in flight for one uncached telegram record
\* both download and both write; when the updateItem of either has run, the
\* store holds exactly one record of the id, and its localPath and cachedAt
\* are the ones that updateItem wrote.
C14_RaceLeavesOneRecord ==
  [][\A r \in InFlight, t \in Times :
       ( /\ FilePump(r, "done", t, FALSE)
         /\ RacingGet(r)
         /\ r.id \in ItemIds ) =>
       /\ Cardinality({i \in DOMAIN Items' : Items'[i].id = r.id}) = 1
       /\ CacheOf(Items', r.id) = {<<r.path, t>>}
    ]_vars

\* A step's store operation applied to the records read just before it, and
\* nothing else: an add appends to all of them, an update changes only the
\* cache fields of the records of its id, a remove drops only the records of
\* its id, and any other step leaves all of them as they are.
StoreStepKeepsAll ==
  LET before == Items
      after == Items' IN
  CASE last'.store = "add" ->
         /\ Len(after) = Len(before) + 1
         /\ SubSeq(after, 1, Len(before)) = before
         /\ after[Len(after)].id = last'.id
    [] last'.store = "update" ->
         /\ Len(after) = Len(before)
         /\ \A i \in DOMAIN before :
              IF before[i].id = last'.id
              THEN /\ after[i].localPath # NoPath /\ after[i].cachedAt # NoTime
                   /\ after[i] = Merge(before[i], CachePatch(after[i].localPath, after[i].cachedAt))
              ELSE after[i] = before[i]
    [] last'.store = "remove" ->
         after = SelectSeq(before, LAMBDA it : it.id # last'.id)
    [] OTHER -> after = before

\* A completed mutation is missing from the record set: an upload that was
\* answered and not deleted since has no record, or the store operation the
\* last step completed does not show (the added record is not there, a record
\* of the updated id lacks the cache fields, the removed id is still there).
MutationMissing ==
  \/ \E u \in uploaded : u[1] \notin ItemIds
  \/ last.store = "add" /\ last.id \notin ItemIds
  \/ /\ last.store = "update"
     /\ \E i \in DOMAIN Items :
          Items[i].id = last.id /\ (Items[i].localPath = NoPath \/ Items[i].cachedAt = NoTime)
  \/ last.store = "remove" /\ last.id \in ItemIds

\* C15: the load-modify-save cycles of requests in flight together interleave
\* so that a save overwrites a change another request completed: a state is
\* reached in which a completed mutation is missing from the record set.
C15_LostUpdateHappens == <>MutationMissing

\* C15 amended: no step loses a completed mutation.  Every store operation
\* reads the metadata file and writes it back within one step, so it applies
\* to the records as the last completed mutation left them, and no state is
\* reached in which a completed mutation is missing.
C15_NoLostUpdate == [][StoreStepKeepsAll /\ ~MutationMissing']_vars

\* C15 witness: the updateItem of a GET has just been saved while a webhook
\* that added another record is still in flight for its pre-cache, and the
\* store holds both the added record and the patched one.
C15_BothMutationsKept ==
  /\ last.op = "file" /\ last.store = "update"
  /\ \E r \in InFlight :
       /\ r.op = "webhook" /\ r.id # last.id
       /\ r.id \in ItemIds
  /\ Found(last.id).found
  /\ Found(last.id).item.cachedAt # NoTime

\* C16: between its creation and its deletion a record keeps its id, source,
\* title, category, date, size and file_id (and its name): the only change a
\* handler makes to an existing record is to set localPath and cachedAt of
\* the record its request addresses, the one findItem returns for the id;
\* every other record is left as it is.
C16_OnlyAddressedRecordPatched ==
  [][CASE last'.store = "update" ->
            /\ Len(Items') = Len(Items)
            /\ \A i \in DOMAIN Items :
                 IF last'.id \in ItemIds /\ i = FirstIndex(Items, last'.id)
                 THEN Items'[i] = Merge(Items[i], CachePatch(Items'[i].localPath,
                                                            Items'[i].cachedAt))
                 ELSE Items'[i] = Items[i]
       [] last'.store = "add" ->
            SubSeq(Items', 1, Len(Items)) = Items
       [] last'.store = "remove" ->
            Items' = SelectSeq(Items, LAMBDA it : it.id # last'.id)
       [] OTHER -> Items' = Items
    ]_vars

\* C17: a GET /api/file/:id that ends in an error response (404, 500 for the
\* missing BOT_TOKEN, 502 for an unusable file lookup or a download that is
\* not ok, 501, 500 for an exception) leaves the metadata file as it was;
\* the only step of a GET that changes it is the updateItem that follows the
\* end of that request's download.
C17_ErrorLeavesStore ==
  [][last'.op = "file" =>
       /\ last'.shape = "error" => (dbFile' = dbFile /\ last'.store = "")
       /\ dbFile' # dbFile =>
            /\ last'.store = "update"
            /\ \E r \in InFlight, t \in Times :
                 r.id = last'.id /\ FilePump(r, "done", t, FALSE)
    ]_vars

\* C17 witness: a GET whose download broke off while it was being written
\* has been answered 500; the partly written file is on disk and the record
\* has no localPath.
C17_FailedDownloadAnswered ==
  /\ last = Logged(Answer("file", last.id, 500, "error"), "file serve error")
  /\ Found(last.id).found
  /\ Found(last.id).item.localPath = NoPath
  /\ \E fp \in FilePaths : CachePath(last.id, BaseName(fp)) \in partial

\* a metadata file that holds no record set: absent, not JSON, or JSON null
Malformed(file) == ParseThrows(file) \/ file.val.isNull

\* what a first mutation may add
SomeItem == [NoItem EXCEPT !.id = NewId(0, 0), !.source = "telegram", !.file_id = FileId]

\* C18: loadDB never fails; for a metadata file that is absent or malformed
\* it returns an empty record set, so GET /api/list answers an empty list and
\* findItem finds no record, and the first mutating operation replaces the
\* file by a well-formed record set that holds the result of that operation
\* alone.
C18_LenientLoad ==
  Malformed(dbFile) =>
    /\ loadDB(dbFile) = JsonObj(TRUE, <<>>)
    /\ ListBody(dbFile) = <<>>
    /\ \A id \in AllIds : ~findItem(dbFile, id).threw /\ ~findItem(dbFile, id).found
    /\ addItem(dbFile, SomeItem, FALSE) =
         [threw |-> FALSE, file |-> saveDB(JsonObj(TRUE, <<SomeItem>>))]
    /\ \A id \in AllIds :
         removeItem(dbFile, id, FALSE) = [threw |-> FALSE, file |-> saveDB(JsonObj(TRUE, <<>>))]

\* C19: no GET /api/file/:id streams a file that is being written: while a
\* request streams the file at a path, no download (of a GET or of a webhook
\* pre-cache) has a write stream open on that path, and the file is not one
\* that a download truncated and has not finished writing.
C19_NoStreamWhileWritten ==
  \A r \in InFlight :
    (r.op = "file" /\ r.pc = "stream") =>
      /\ Writers(r.path) = {}
      /\ r.path \notin partial

\* the files that downloads write: STORAGE_DIR/<id>-<basename of file_path>
CacheFiles == {CachePath(id, BaseName(fp)) : id \in AllIds, fp \in FilePaths}

\* C20: a deleted record leaves no downloaded file behind: once no request is
\* in flight, every cache file in the storage directory belongs to a record
\* that is still in the store.
C20_NoCacheFileOutlivesRecord ==
  reqs = EmptyBag =>
    \A p \in storage \cap CacheFiles : p[1] \in ItemIds

====
